---- MODULE Spec2Model ----
(***************************************************************************)
(* Multi-provider orchestration engine of the meeting-minutes backend.     *)
(*                                                                         *)
(*   ai_multi_model.py   AIOrchestrator.generate: selector, sequential     *)
(*                       failover, usage ledger (request_count,            *)
(*                       error_count, total_cost).                         *)
(*   ai_orchestrator.py  AIOrchestrator.process_task: sequential failover  *)
(*                       and parallel consensus over model_routing; it owns*)
(*                       no ledger.                                        *)
(*                                                                         *)
(* A request is a coroutine; it is modelled at the granularity of its      *)
(* provider calls: one action starts the request up to its first provider  *)
(* call, one action per completion of a provider call runs the code up to  *)
(* the next provider call or to the return/raise.  The two gathered calls  *)
(* of a parallel process_task complete in either order.  Requests are      *)
(* served one after the other: generate never yields the event loop (its   *)
(* SDK clients are synchronous) and process_task shares no state with any  *)
(* other request.  nreq counts the requests submitted, up to NumReq.       *)
(*                                                                         *)
(* Specifications: Spec (the requests), LiveSpec (Spec with provider calls *)
(* that complete), StatsSpec (requests with get_stats called wherever the  *)
(* event loop is free), CancelSpec (generate with a caller that asks to    *)
(* cancel), SelectorSpec (_select_models alone, over drawn candidate       *)
(* lists) and InterpreterSpec (_parse_response and _calculate_confidence   *)
(* alone, over drawn response texts).                                      *)
(*                                                                         *)
(* Units: cost_per_1k_tokens is held in 1e-5 dollars (0.003 -> 300), and   *)
(* a cost in CostUnit = 1/(4 * 1000 * 1e5) dollars, so that                *)
(* ((len(prompt)+len(response))/4/1000) * cost_per_1k_tokens is the integer*)
(* (len(prompt)+len(response)) * rate.  Confidences are held in percent.   *)
(***************************************************************************)
EXTENDS Integers, Sequences, FiniteSets, TLC

\* ------------------------------------------------------------------ bounds
\* number of requests submitted over the life of the process
NumReq == 2

Requests == 1..NumReq

\* ---------------------------------------------------------------- registry
ModelCfg(p, id, cost, speed, quality) ==
    [provider |-> p, model_id |-> id, cost_per_1k_tokens |-> cost,
     speed_score |-> speed, quality_score |-> quality, is_available |-> TRUE]

MODEL_REGISTRY ==
    [VISION |-> << ModelCfg("anthropic", "claude-3-5-sonnet-20241022", 300, 8, 10),
                   ModelCfg("openai", "gpt-4-vision-preview", 1000, 6, 9),
                   ModelCfg("google", "gemini-pro-vision", 25, 9, 8) >>,
     AUDIO |-> << ModelCfg("openai", "whisper-1", 600, 7, 10) >>,
     ANALYSIS |-> << ModelCfg("anthropic", "claude-3-opus-20240229", 1500, 6, 10),
                     ModelCfg("openai", "gpt-4-turbo-preview", 1000, 8, 9),
                     ModelCfg("google", "gemini-1.5-pro-latest", 125, 9, 8) >>,
     SUMMARY |-> << ModelCfg("anthropic", "claude-3-haiku-20240307", 25, 10, 8),
                    ModelCfg("openai", "gpt-3.5-turbo-16k", 150, 9, 7),
                    ModelCfg("google", "gemini-pro", 25, 9, 7) >>,
     CODE |-> << ModelCfg("anthropic", "claude-3-5-sonnet-20241022", 300, 8, 10),
                 ModelCfg("openai", "gpt-4", 3000, 7, 9) >>]

ModelType == DOMAIN MODEL_REGISTRY

\* "no ceiling" value of max_cost
None == -1

\* ---------------------------------------------------------------- selector
\* sort key of a descriptor; the balanced key (quality + speed) / 2 is held
\* doubled
SortKey(m, prefer_speed, prefer_quality) ==
    IF prefer_speed THEN 2 * m.speed_score
    ELSE IF prefer_quality THEN 2 * m.quality_score
    ELSE m.quality_score + m.speed_score

\* mutant: a descriptor is moved behind the later ones of equal key
RECURSIVE SortDescUnstable(_, _, _)
SortDescUnstable(s, ps, pq) ==
    IF Len(s) <= 1 THEN s
    ELSE LET rest == SortDescUnstable(Tail(s), ps, pq)
             k    == SortKey(Head(s), ps, pq)
             n    == Cardinality({j \in 1..Len(rest) : SortKey(rest[j], ps, pq) >= k})
         IN SubSeq(rest, 1, n) \o << Head(s) >> \o SubSeq(rest, n + 1, Len(rest))

\* list.sort(key=..., reverse=True): stable, descending
RECURSIVE SortDesc(_, _, _)
SortDesc(s, ps, pq) ==
    IF Len(s) <= 1 THEN s
    ELSE LET rest == SortDesc(Tail(s), ps, pq)
             k    == SortKey(Head(s), ps, pq)
             \* the head stays before every element of the rest whose key is
             \* not strictly greater
             n    == Cardinality({j \in 1..Len(rest) : SortKey(rest[j], ps, pq) > k})
         IN SubSeq(rest, 1, n) \o << Head(s) >> \o SubSeq(rest, n + 1, Len(rest))

\* mutant: a candidate costing exactly the ceiling is dropped
KeepBelow(m, max_cost) ==
    m.is_available /\ (max_cost = None \/ m.cost_per_1k_tokens < max_cost)

\* the filter of the list comprehension, lines 377-383
Keep(m, max_cost) ==
    m.is_available /\ (max_cost = None \/ m.cost_per_1k_tokens <= max_cost)

\* _select_models, lines 376-399: filter and sort of the list the registry
\* holds for the category
FilterAndSort(models, prefer_speed, prefer_quality, max_cost) ==
    LET KeepIt(m) == Keep(m, max_cost)
        available == SelectSeq(models, KeepIt)
    IN IF available = << >> THEN << >>
       ELSE SortDesc(available, prefer_speed, prefer_quality)

\* mutant: the registry's own list is sorted
RegistryAfterSortInPlace(models, prefer_speed, prefer_quality, max_cost) ==
    IF models = << >> THEN << >> ELSE SortDesc(models, prefer_speed, prefer_quality)

\* the list the registry holds after _select_models: the comprehension of
\* lines 377-382 builds a new list and the sort acts on that one
RegistryAfter(models, prefer_speed, prefer_quality, max_cost) == models

\* MODEL_REGISTRY.get(model_type, [])
RegistryGet(model_type) ==
    IF model_type \in ModelType THEN MODEL_REGISTRY[model_type] ELSE << >>

_select_models(model_type, prefer_speed, prefer_quality, max_cost) ==
    FilterAndSort(RegistryGet(model_type), prefer_speed, prefer_quality, max_cost)

\* ------------------------------------------------------------ model routing
\* an enum member: model.value is the identifier sent to the provider
AIModel ==
    [CLAUDE_OPUS |-> [value |-> "claude-3-opus-20240229"],
     CLAUDE_SONNET |-> [value |-> "claude-3-5-sonnet-20241022"],
     CLAUDE_HAIKU |-> [value |-> "claude-3-haiku-20240307"],
     GPT4_TURBO |-> [value |-> "gpt-4-turbo-preview"],
     GPT4_VISION |-> [value |-> "gpt-4-vision-preview"],
     GPT35_TURBO |-> [value |-> "gpt-3.5-turbo"],
     GEMINI_PRO |-> [value |-> "gemini-1.5-pro"],
     GEMINI_FLASH |-> [value |-> "gemini-1.5-flash"]]

model_routing ==
    [transcription |-> << AIModel.GPT4_TURBO >>,
     sentiment_analysis |-> << AIModel.CLAUDE_SONNET, AIModel.GPT4_TURBO, AIModel.GEMINI_PRO >>,
     action_extraction |-> << AIModel.CLAUDE_SONNET, AIModel.GPT4_TURBO >>,
     summary_generation |-> << AIModel.CLAUDE_SONNET, AIModel.GPT4_TURBO, AIModel.GEMINI_FLASH >>,
     speaker_diarization |-> << AIModel.GPT4_TURBO, AIModel.CLAUDE_SONNET >>,
     screenshot_analysis |-> << AIModel.GPT4_VISION, AIModel.CLAUDE_SONNET >>,
     decision_extraction |-> << AIModel.CLAUDE_SONNET, AIModel.GPT4_TURBO >>,
     topic_classification |-> << AIModel.GEMINI_FLASH, AIModel.GPT35_TURBO, AIModel.CLAUDE_HAIKU >>,
     deadline_prediction |-> << AIModel.GPT4_TURBO, AIModel.CLAUDE_SONNET >>,
     meeting_scoring |-> << AIModel.CLAUDE_SONNET, AIModel.GPT4_TURBO >>]

TaskType == DOMAIN model_routing

\* --------------------------------------------------------- provider replies
\* cause tags of a provider error
Causes == {"timeout", "auth", "rate_limited", "malformed_response", "unknown"}

\* A JSON value as far as the interpreter looks into it.  A field is
\* <<"absent">>, <<"num", n>> (n in percent for a confidence), <<"str">>
\* (a non-numeric scalar), <<"bool", b>>, or <<"map", f>> with f the
\* "confidence" field of the nested map.  The field nested stands for a key
\* other than overall_sentiment whose value is a map.
Absent == << "absent" >>
Num(n) == << "num", n >>

JsonMap(conf, sentiment, parsed) ==
    [kind |-> "map", confidence |-> conf, overall_sentiment |-> sentiment,
     parsed |-> parsed, nested |-> Absent, raw_response |-> << >>]
\* {"speaker_sentiment": {"confidence": c}}
JsonMapNested(conf) == [JsonMap(Absent, Absent, Absent) EXCEPT !.nested = << "map", conf >>]
JsonList == [kind |-> "list", confidence |-> Absent, overall_sentiment |-> Absent,
             parsed |-> Absent, nested |-> Absent, raw_response |-> << >>]

\* Python's None where a result is expected
NoResult == [kind |-> "None", confidence |-> Absent, overall_sentiment |-> Absent,
             parsed |-> Absent, nested |-> Absent, raw_response |-> << >>]

\* A response text is a sequence of tokens: a whitespace character, a run
\* of at least two characters that is no JSON and holds no backtick, the
\* marker ```json, the marker ```, or the text of a JSON document.
Ws == [kind |-> "ws", doc |-> NoResult]
Prose == [kind |-> "prose", doc |-> NoResult]
FenceJson == [kind |-> "fence_json", doc |-> NoResult]
Fence == [kind |-> "fence", doc |-> NoResult]
Doc(d) == [kind |-> "doc", doc |-> d]

\* response texts a provider may return to process_task
TextContent ==
    [conf60 |-> << Doc(JsonMap(Num(60), Absent, Absent)) >>,
     conf90 |-> << Doc(JsonMap(Num(90), Absent, Absent)) >>,
     noconf |-> << Doc(JsonMap(Absent, Absent, Absent)) >>,
     sentiment70 |-> << Doc(JsonMap(Absent, << "map", Num(70) >>, Absent)) >>,
     \* {"confidence": 85}: a score on the 0-100 scale the prompts ask for
     conf8500 |-> << Doc(JsonMap(Num(8500), Absent, Absent)) >>,
     \* {"confidence": "high"}
     confstr |-> << Doc(JsonMap(<< "str" >>, Absent, Absent)) >>,
     array |-> << Doc(JsonList) >>,
     prose |-> << Prose >>]

Texts == { TextContent[name] : name \in DOMAIN TextContent }

\* lengths of the texts a provider may return to generate
ResponseLens == {0, 40}
\* len(prompt) of a generate request
PromptLens == {20}
\* len(token_encoder.encode(prompt)) of a process_task request
PromptTokens == {7}

\* -------------------------------------------------------------- interpreter
\* "```json" in response_text, "```" in response_text
Contains(text, kinds) == \E i \in 1..Len(text) : text[i].kind \in kinds

\* str.find(marker, start): the first token at or after from that holds the
\* marker, 0 where Python gives -1.  "```" is also found in a ```json marker.
Find(text, kinds, from) ==
    LET hits == { i \in from..Len(text) : text[i].kind \in kinds }
    IN IF hits = {} THEN 0 ELSE CHOOSE i \in hits : \A j \in hits : i <= j

\* text[:-1]: a whitespace character goes, a document loses its closing
\* bracket and is no document any more, prose stays prose
DropLastChar(text) ==
    IF text = << >> THEN << >>
    ELSE LET last == text[Len(text)]
             front == SubSeq(text, 1, Len(text) - 1)
         IN IF last.kind = "ws" THEN front
            ELSE IF last.kind = "doc" THEN Append(front, Prose)
            ELSE text

\* response_text[json_start:json_end] with json_start just behind the
\* marker at open and json_end = response_text.find("```", json_start): an
\* end of -1 drops the last character of the text
Slice(text, open) ==
    LET json_end == Find(text, {"fence", "fence_json"}, open + 1)
    IN IF json_end # 0 THEN SubSeq(text, open + 1, json_end - 1)
       ELSE DropLastChar(SubSeq(text, open + 1, Len(text)))

\* str.strip()
RECURSIVE Strip(_)
Strip(text) ==
    IF text = << >> THEN << >>
    ELSE IF text[1].kind = "ws" THEN Strip(Tail(text))
    ELSE IF text[Len(text)].kind = "ws" THEN Strip(SubSeq(text, 1, Len(text) - 1))
    ELSE text

\* _parse_response, lines 448-457: json_str
Extract(response_text) ==
    IF Contains(response_text, {"fence_json"})
    THEN Strip(Slice(response_text, Find(response_text, {"fence_json"}, 1)))
    ELSE IF Contains(response_text, {"fence"})
    THEN Strip(Slice(response_text, Find(response_text, {"fence"}, 1)))
    ELSE Strip(response_text)

\* json.loads accepts exactly one document
Decodable(json_str) == Len(json_str) = 1 /\ json_str[1].kind = "doc"

\* mutant: the fallback keeps the extracted text
FallbackExtracted(response_text, json_str) ==
    [kind |-> "map", confidence |-> Absent, overall_sentiment |-> Absent,
     parsed |-> << "bool", FALSE >>, nested |-> Absent, raw_response |-> json_str]

\* _parse_response, lines 461-467: {"raw_response": response_text,
\* "parsed": False}
Fallback(response_text, json_str) ==
    [kind |-> "map", confidence |-> Absent, overall_sentiment |-> Absent,
     parsed |-> << "bool", FALSE >>, nested |-> Absent, raw_response |-> response_text]

\* _parse_response: the decoded document, or the raw-text fallback on
\* json.JSONDecodeError
_parse_response(response_text) ==
    LET json_str == Extract(response_text)
    IN IF Decodable(json_str) THEN json_str[1].doc
       ELSE Fallback(response_text, json_str)

\* float(x): [raised, value]
ToFloat(x) == IF x[1] = "num" THEN [raised |-> FALSE, value |-> x[2]]
              ELSE [raised |-> TRUE, value |-> 0]

\* _calculate_confidence: [raised, value], value in percent
_calculate_confidence(result) ==
    IF result.kind = "map" /\ result.confidence # Absent
    THEN ToFloat(result.confidence)
    ELSE IF result.kind = "map" /\ result.overall_sentiment # Absent
    THEN \* "confidence" in result["overall_sentiment"]
         IF result.overall_sentiment[1] = "map"
         THEN IF result.overall_sentiment[2] # Absent
              THEN ToFloat(result.overall_sentiment[2])
              ELSE IF result.parsed \in {Absent, << "bool", TRUE >>}
                   THEN [raised |-> FALSE, value |-> 85]
                   ELSE [raised |-> FALSE, value |-> 50]
         ELSE [raised |-> TRUE, value |-> 0]
    ELSE IF result.kind # "map" THEN [raised |-> TRUE, value |-> 0]  \* list has no .get
    ELSE IF result.parsed \in {Absent, << "bool", TRUE >>}
         THEN [raised |-> FALSE, value |-> 85]
         ELSE [raised |-> FALSE, value |-> 50]

\* -------------------------------------------------------------------- state
VARIABLES
    registry_models, \* selector runs: the list MODEL_REGISTRY holds for the category
    request_count,   \* ledger: key -> successful attempts (a dict: partial)
    error_count,     \* ledger: key -> failed attempts (a dict: partial)
    total_cost,      \* ledger: running estimated cost, in CostUnit
    nreq,            \* requests submitted so far
    pc,              \* position of the request being served
    args,            \* its arguments
    models,          \* its candidate list
    idx,             \* index (1-based) of the candidate whose call is in flight
    last_error,      \* generate: cause of the last provider error
    responses,       \* process_task, parallel: slot k holds branch k's result
    finished,        \* parallel: branch indices in order of completion
    outcome,         \* what the caller receives
    calls,           \* history: candidate indices in order of invocation
    attempts,        \* history: completed calls of this request, in order of
                     \* completion: [cand, ok, confidence, returned]
    base,            \* history: the ledger when the request started
    gen_attempts,    \* history: provider calls completed by generate
    task_attempts,   \* history: provider calls completed by process_task
    stats,           \* the dict the last call of get_stats returned
    cancel_requested, \* the caller has asked to cancel the request being served
    cost_reported,   \* history: sum of the costs in the outcomes generate returned
    response_text,   \* interpreter runs: the text a provider returned
    interpreted      \* interpreter runs: what _call_model made of the text

ledger == << request_count, error_count, total_cost >>
frame  == << pc, args, models, idx, last_error, responses, finished, outcome >>
hist   == << calls, attempts, base, gen_attempts, task_attempts >>
vars   == << registry_models, request_count, error_count, total_cost, nreq,
             pc, args, models, idx, last_error, responses, finished, outcome,
             calls, attempts, base, gen_attempts, task_attempts, stats,
             cancel_requested, cost_reported, response_text, interpreted >>

\* dict.get(key, 0)
Get(d, key) == IF key \in DOMAIN d THEN d[key] ELSE 0
\* d[key] = d.get(key, 0) + 1
Incr(d, key) == [k \in DOMAIN d \cup {key} |-> IF k = key THEN Get(d, key) + 1 ELSE d[k]]
\* sum(d.values())
RECURSIVE SumValues(_)
SumValues(d) ==
    IF DOMAIN d = {} THEN 0
    ELSE LET k == CHOOSE x \in DOMAIN d : TRUE
         IN d[k] + SumValues([x \in DOMAIN d \ {k} |-> d[x]])

EmptyDict == [k \in {} |-> 0]

\* f"{config.provider.value}/{config.model_id}"
Key(config) == << config.provider, config.model_id >>

NoArgs == [api |-> "none", category |-> "-", prefer_speed |-> FALSE,
           prefer_quality |-> FALSE, max_cost |-> None, use_parallel |-> FALSE,
           prompt_len |-> 0, tokens |-> 0]

\* what a caller can receive: a returned value or a raised exception
NoOutcome == [kind |-> "none", exc |-> "-", success |-> FALSE, model |-> "-",
              provider |-> "-", result |-> NoResult, confidence |-> 0, cost |-> 0,
              response_len |-> 0, tokens_used |-> 0, error |-> "-"]

Pending == [state |-> "pending", value |-> NoOutcome]

\* the interpreter has not run
NoInterp == [decoded |-> FALSE, result |-> NoResult, raised |-> FALSE, confidence |-> 0]

\* get_stats has not been called
NoStats == [total_requests |-> 0, total_errors |-> 0, total_cost_usd |-> 0,
            success_rate |-> [num |-> 0, den |-> 0]]

Init ==
    /\ registry_models = << >>
    /\ request_count = EmptyDict
    /\ error_count = EmptyDict
    /\ total_cost = 0
    /\ nreq = 0
    /\ pc = "idle"
    /\ args = NoArgs
    /\ models = << >>
    /\ idx = 0
    /\ last_error = "None"
    /\ responses = << >>
    /\ finished = << >>
    /\ outcome = NoOutcome
    /\ calls = << >>
    /\ attempts = << >>
    /\ base = [request_count |-> EmptyDict, error_count |-> EmptyDict, total_cost |-> 0]
    /\ gen_attempts = 0
    /\ task_attempts = 0
    /\ stats = NoStats
    /\ cancel_requested = FALSE
    /\ cost_reported = 0
    /\ response_text = << >>
    /\ interpreted = NoInterp

\* ------------------------------------------------------------------ ledger
\* mutant: a success is counted twice
TrackSuccessTwice(count, config) == Incr(Incr(count, Key(config)), Key(config))

\* mutant: the error is not recorded
TrackErrorLost(count, config) == count

\* mutant: the update replaces the dict by one holding this counter alone
TrackSuccessReset(count, config) ==
    [k \in {Key(config)} |-> Get(count, Key(config)) + 1]

\* mutant: the update writes back a counter read before an earlier update
TrackErrorStale(count, config) ==
    [k \in DOMAIN count \cup {Key(config)} |-> IF k = Key(config) THEN 1 ELSE count[k]]

\* mutant: the error is booked on the first candidate of the list
TrackErrorOfFirst(count, config) == Incr(count, Key(models[1]))

\* _track_success / _track_error: the dict after the update
_track_success(count, config) == Incr(count, Key(config))
_track_error(count, config) == Incr(count, Key(config))

\* mutant: the prompt is not counted
EstimateCostResponseOnly(prompt_len, response_len, config) ==
    response_len * config.cost_per_1k_tokens

\* _estimate_cost: the cost of one request, in CostUnit
_estimate_cost(prompt_len, response_len, config) ==
    (prompt_len + response_len) * config.cost_per_1k_tokens

Snapshot == [request_count |-> request_count, error_count |-> error_count,
             total_cost |-> total_cost]

\* ------------------------------------------------------------------- stats
\* 0.0001 dollars in CostUnit
UsdStep == 40000

\* round(total_cost, 4), in units of 0.0001 dollars: the nearest multiple; a
\* cost halfway between two multiples goes to either one, as the float's
\* last bits decide
Round4(cost) ==
    { n \in { cost \div UsdStep, cost \div UsdStep + 1 } :
        \/ 2 * (cost - n * UsdStep) \in 0..UsdStep
        \/ 2 * (n * UsdStep - cost) \in 0..UsdStep }

\* mutant: no traffic counts as failure
SuccessRateZeroWhenIdle(requests, errors) ==
    LET total_requests == SumValues(requests)
        total_errors == SumValues(errors)
    IN IF total_requests + total_errors = 0 THEN [num |-> 0, den |-> 1]
       ELSE [num |-> total_requests, den |-> total_requests + total_errors]

\* _calculate_success_rate: the quotient num / den
_calculate_success_rate(requests, errors) ==
    LET total_requests == SumValues(requests)
        total_errors == SumValues(errors)
    IN IF total_requests + total_errors = 0 THEN [num |-> 1, den |-> 1]
       ELSE [num |-> total_requests, den |-> total_requests + total_errors]

\* mutant: the totals count the models seen
GetStatsCountsModels(total_cost_usd) ==
    [total_requests |-> Cardinality(DOMAIN request_count),
     total_errors |-> Cardinality(DOMAIN error_count),
     total_cost_usd |-> total_cost_usd,
     success_rate |-> _calculate_success_rate(request_count, error_count)]

\* get_stats: the values computed at the call.  requests_by_model and
\* errors_by_model of the returned dict are request_count and error_count
\* themselves (no copy), so they are not fields of this record.
get_stats(total_cost_usd) ==
    [total_requests |-> SumValues(request_count),
     total_errors |-> SumValues(error_count),
     total_cost_usd |-> total_cost_usd,
     success_rate |-> _calculate_success_rate(request_count, error_count)]

\* a call of get_stats; it runs whenever the event loop is free, that is
\* between requests or while a process_task coroutine is suspended at a
\* provider call (generate's provider calls block the loop)
GetStats ==
    /\ pc # "gen_call"
    /\ \E usd \in Round4(total_cost) : stats' = get_stats(usd)
    /\ UNCHANGED << registry_models, interpreted, response_text, cost_reported,
                    cancel_requested, ledger, nreq, frame, hist >>

\* ------------------------------------------------------ the failover loops
\* mutant: the emptiness test is missing
NoModelsNever(ms) == FALSE

\* "if not models" (generate, line 252)
NoModels(ms) == ms = << >>

\* mutant: the loop stops one candidate early
HasNextOffByOne(i, ms) == i + 1 < Len(ms)

\* "for model in models": does the loop have another candidate after index i
HasNext(i, ms) == i < Len(ms)

\* mutant: a failed candidate is tried again
NextCandidateRetry(i) == IF i = 0 THEN 1 ELSE i

\* mutant: the loop starts over from the first candidate
NextCandidateRestart(i) == 1

\* "for model in models": the index tried after index i
NextCandidate(i) == i + 1

\* ---------------------------------------------------------------- generate
\* a model_type that is no key of MODEL_REGISTRY (the annotation is not
\* enforced)
UnknownModelType == "embedding"

\* arguments of the generate calls submitted
GenerateArgs ==
    { [api |-> "generate", category |-> t, prefer_speed |-> ps, prefer_quality |-> pq,
       max_cost |-> mc, use_parallel |-> FALSE, prompt_len |-> pl, tokens |-> 0] :
        t \in ModelType \cup {UnknownModelType}, ps \in BOOLEAN, pq \in BOOLEAN,
        mc \in {None, 1000, 10}, pl \in PromptLens }

\* generate, lines 244-262: select, fail fast on an empty selection, else
\* enter the loop and call the first candidate
GenerateStart(a) ==
    /\ pc = "idle"
    /\ nreq < NumReq
    /\ nreq' = nreq + 1
    /\ args' = a
    /\ base' = Snapshot
    /\ LET selected == _select_models(a.category, a.prefer_speed, a.prefer_quality,
                                      a.max_cost)
       IN /\ models' = selected
          /\ IF NoModels(selected)
             THEN /\ pc' = "done"
                  /\ outcome' = [NoOutcome EXCEPT !.kind = "raise", !.exc = "ValueError",
                                                  !.error = "No available models"]
                  /\ idx' = 0
                  /\ calls' = << >>
             ELSE IF HasNext(0, selected)
             THEN /\ pc' = "gen_call"
                  /\ outcome' = NoOutcome
                  /\ idx' = NextCandidate(0)
                  /\ calls' = << NextCandidate(0) >>
             ELSE \* the loop body never runs
                  /\ pc' = "done"
                  /\ outcome' = [NoOutcome EXCEPT !.kind = "raise", !.exc = "RuntimeError",
                                                  !.error = "None"]
                  /\ idx' = 0
                  /\ calls' = << >>
    /\ last_error' = "None"
    /\ attempts' = << >>
    /\ UNCHANGED << registry_models, interpreted, response_text, cost_reported,
                    cancel_requested, stats, ledger, responses, finished, gen_attempts,
                    task_attempts >>

\* generate, lines 274-293: the provider call returned text
GenerateCallReturns(response_len) ==
    /\ pc = "gen_call"
    /\ LET model_config == models[idx]
           cost == _estimate_cost(args.prompt_len, response_len, model_config)
       IN /\ request_count' = _track_success(request_count, model_config)
          /\ total_cost' = total_cost + cost
          /\ outcome' = [NoOutcome EXCEPT !.kind = "return", !.success = TRUE,
                                          !.model = model_config.model_id,
                                          !.provider = model_config.provider,
                                          !.cost = cost,
                                          !.response_len = response_len]
    /\ pc' = "done"
    /\ idx' = 0
    /\ last_error' = "None"
    /\ attempts' = Append(attempts, [cand |-> idx, ok |-> TRUE, confidence |-> 0,
                                  returned |-> TRUE])
    /\ gen_attempts' = gen_attempts + 1
    /\ cost_reported' = cost_reported + outcome'.cost
    /\ UNCHANGED << registry_models, interpreted, response_text, cancel_requested,
                    stats, error_count, nreq, args, models, responses, finished, calls,
                    base, task_attempts >>

\* generate, lines 295-306: the provider call raised; next candidate, or
\* RuntimeError after the last one
GenerateCallRaises(cause) ==
    /\ pc = "gen_call"
    /\ error_count' = _track_error(error_count, models[idx])
    /\ attempts' = Append(attempts, [cand |-> idx, ok |-> FALSE, confidence |-> 0,
                                  returned |-> FALSE])
    /\ gen_attempts' = gen_attempts + 1
    /\ IF HasNext(idx, models)
       THEN /\ idx' = NextCandidate(idx)
            /\ calls' = Append(calls, NextCandidate(idx))
            /\ last_error' = cause
            /\ UNCHANGED << pc, outcome >>
       ELSE /\ pc' = "done"
            /\ idx' = 0
            /\ last_error' = "None"
            /\ outcome' = [NoOutcome EXCEPT !.kind = "raise", !.exc = "RuntimeError",
                                            !.error = cause]
            /\ UNCHANGED calls
    /\ UNCHANGED << registry_models, interpreted, response_text, cost_reported,
                    cancel_requested, stats, request_count, total_cost, nreq, args,
                    models, responses, finished, base, task_attempts >>

\* the caller takes the outcome; the request's frame is gone
Collect ==
    /\ pc = "done"
    /\ pc' = "idle"
    /\ args' = NoArgs
    /\ models' = << >>
    /\ idx' = 0
    /\ last_error' = "None"
    /\ responses' = << >>
    /\ finished' = << >>
    /\ outcome' = NoOutcome
    /\ calls' = << >>
    /\ attempts' = << >>
    /\ base' = Snapshot
    /\ cancel_requested' = FALSE
    /\ UNCHANGED << registry_models, interpreted, response_text, cost_reported, stats,
                    ledger, nreq, gen_attempts, task_attempts >>

\* ------------------------------------------------------------ process_task
\* task types submitted: lists of one, two and three candidates; the first
\* two calls of topic_classification both suspend (gemini via a thread,
\* AsyncOpenAI), so either may complete first
TaskTypesUsed == {"transcription", "action_extraction", "topic_classification"}

\* a task_type that is no key of model_routing: an enum-like value (it has
\* .value) outside TaskType
UnknownTaskType == "translation"

\* arguments of the process_task calls submitted
ProcessTaskArgs ==
    { [api |-> "process_task", category |-> t, prefer_speed |-> FALSE,
       prefer_quality |-> FALSE, max_cost |-> None, use_parallel |-> par,
       prompt_len |-> 0, tokens |-> n] :
        t \in TaskTypesUsed \cup {UnknownTaskType}, par \in BOOLEAN, n \in PromptTokens }

\* what a provider call of process_task can do: raise, or return a text
TaskReplies ==
    { [ok |-> FALSE, cause |-> c, text |-> << >>] : c \in Causes } \cup
    { [ok |-> TRUE, cause |-> "-", text |-> t] : t \in Texts }

\* AIResponse(success=True, ...) of _call_model
AIResponseOk(model, result, confidence, tokens_used) ==
    [NoOutcome EXCEPT !.kind = "return", !.success = TRUE, !.model = model,
                      !.result = result, !.confidence = confidence,
                      !.tokens_used = tokens_used]

\* mutant: the failure carries no error description
AIResponseFailedSilent(model, error) ==
    [NoOutcome EXCEPT !.kind = "return", !.success = FALSE, !.model = model]

\* AIResponse(success=False, result=None, confidence=0.0, tokens_used=0, ...)
AIResponseFailed(model, error) ==
    [NoOutcome EXCEPT !.kind = "return", !.success = FALSE, !.model = model,
                      !.error = error]

Raised(error) == [NoOutcome EXCEPT !.kind = "raise", !.exc = "Exception", !.error = error]

\* _call_model, lines 180-204: the AIResponse it returns or the exception it
\* re-raises, for a given behaviour of the provider
_call_model(model, tokens_used, reply) ==
    IF ~reply.ok THEN Raised(reply.cause)
    ELSE LET result == _parse_response(reply.text)
             confidence == _calculate_confidence(result)
         IN IF confidence.raised THEN Raised("confidence")
            ELSE AIResponseOk(model.value, result, confidence.value, tokens_used)

\* asyncio.gather(..., return_exceptions=True): results in the order of the
\* awaitables, whatever the order of completion
GatherResults(resp, fin) == [k \in 1..Len(resp) |-> resp[k].value]

IsValid(r) == r.kind = "return" /\ r.success

\* mutant: the last maximal item
MaxByConfidenceLast(valid) ==
    LET best == CHOOSE i \in 1..Len(valid) :
                  /\ \A j \in 1..Len(valid) : valid[j].confidence <= valid[i].confidence
                  /\ \A j \in (i+1)..Len(valid) : valid[j].confidence < valid[i].confidence
    IN valid[best]

\* max(valid_responses, key=lambda x: x.confidence): the first maximal item
MaxByConfidence(valid) ==
    LET best == CHOOSE i \in 1..Len(valid) :
                  /\ \A j \in 1..Len(valid) : valid[j].confidence <= valid[i].confidence
                  /\ \A j \in 1..(i-1) : valid[j].confidence < valid[i].confidence
    IN valid[best]

\* history entry of a completed _call_model: returned tells whether the
\* provider call itself returned text
Attempt(cand, reply, response) ==
    [cand |-> cand, ok |-> IsValid(response), confidence |-> response.confidence,
     returned |-> reply.ok]

\* number of models called concurrently
K == 2

\* models[:2]
TopK(ms) == SubSeq(ms, 1, IF Len(ms) < K THEN Len(ms) ELSE K)

\* mutant: return on the first completion
AnyCompleted(resp) == \E k \in 1..Len(resp) : resp[k].state = "done"

\* gather returns once every awaitable has completed
AllCompleted(resp) == \A k \in 1..Len(resp) : resp[k].state = "done"

\* mutant: race to the first success -- the valid response that completed
\* first
FirstCompletedDecision(resp, fin) ==
    LET valid == { k \in 1..Len(fin) : IsValid(resp[fin[k]].value) }
    IN IF valid = {} THEN NoOutcome
       ELSE resp[fin[CHOOSE k \in valid : \A j \in valid : k <= j]].value

\* process_task, lines 123-125: the best valid response of the gathered
\* list, NoOutcome when there is none
ConsensusDecision(resp, fin) ==
    LET results == GatherResults(resp, fin)
        valid_responses == SelectSeq(results, IsValid)
    IN IF valid_responses # << >> THEN MaxByConfidence(valid_responses)
       ELSE NoOutcome

\* process_task, lines 112-132: look up the routing, then either fan out to
\* models[:2] or call the first model of the loop
ProcessTaskStart(a) ==
    /\ pc = "idle"
    /\ nreq < NumReq
    /\ nreq' = nreq + 1
    /\ args' = a
    /\ base' = Snapshot
    /\ LET ms == IF a.category \in TaskType THEN model_routing[a.category]
                 ELSE << AIModel.CLAUDE_SONNET >>
       IN /\ models' = ms
          /\ IF a.use_parallel /\ Len(ms) > 1
             THEN /\ pc' = "par_wait"
                  /\ responses' = [k \in 1..Len(TopK(ms)) |-> Pending]
                  /\ calls' = [k \in 1..Len(TopK(ms)) |-> k]
                  /\ idx' = 0
             ELSE /\ pc' = "seq_call"
                  /\ responses' = << >>
                  /\ calls' = << NextCandidate(0) >>
                  /\ idx' = NextCandidate(0)
    /\ finished' = << >>
    /\ outcome' = NoOutcome
    /\ last_error' = "None"
    /\ attempts' = << >>
    /\ UNCHANGED << registry_models, interpreted, response_text, cost_reported,
                    cancel_requested, stats, ledger, gen_attempts, task_attempts >>

\* process_task, lines 130-149: a call of the sequential loop completed
SeqCallCompletes(reply) ==
    /\ pc = "seq_call"
    /\ LET response == _call_model(models[idx], args.tokens, reply)
       IN /\ attempts' = Append(attempts, Attempt(idx, reply, response))
          /\ IF IsValid(response)
             THEN /\ pc' = "done"
                  /\ outcome' = response
                  /\ idx' = 0
                  /\ UNCHANGED calls
             ELSE IF HasNext(idx, models)
             THEN /\ idx' = NextCandidate(idx)
                  /\ calls' = Append(calls, NextCandidate(idx))
                  /\ UNCHANGED << pc, outcome >>
             ELSE /\ pc' = "done"
                  /\ outcome' = AIResponseFailed(models[1].value, "All models failed")
                  /\ idx' = 0
                  /\ UNCHANGED calls
    /\ task_attempts' = task_attempts + 1
    /\ UNCHANGED << registry_models, interpreted, response_text, cost_reported,
                    cancel_requested, stats, ledger, nreq, args, models, last_error,
                    responses, finished, base, gen_attempts >>

\* one of the gathered _call_model coroutines completed
ParBranchCompletes(k, reply) ==
    /\ pc = "par_wait"
    /\ k \in 1..Len(responses)
    /\ responses[k].state = "pending"
    /\ LET response == _call_model(models[k], args.tokens, reply)
       IN /\ responses' = [responses EXCEPT ![k] = [state |-> "done", value |-> response]]
          /\ attempts' = Append(attempts, Attempt(k, reply, response))
    /\ finished' = Append(finished, k)
    /\ task_attempts' = task_attempts + 1
    /\ UNCHANGED << registry_models, interpreted, response_text, cost_reported,
                    cancel_requested, stats, ledger, nreq, pc, args, models, idx,
                    last_error, outcome, calls, base, gen_attempts >>

\* process_task, lines 118-127: gather returned; best valid response, or
\* one more call of models[0].  The gathered list is not read after this
\* point and is dropped here.
ParJoin ==
    /\ pc = "par_wait"
    /\ AllCompleted(responses)
    /\ LET best == ConsensusDecision(responses, finished)
       IN IF best # NoOutcome
          THEN /\ pc' = "done"
               /\ outcome' = best
               /\ UNCHANGED << idx, calls >>
          ELSE /\ pc' = "par_fallback"
               /\ idx' = 1
               /\ calls' = Append(calls, 1)
               /\ UNCHANGED outcome
    /\ responses' = << >>
    /\ finished' = << >>
    /\ UNCHANGED << registry_models, interpreted, response_text, cost_reported,
                    cancel_requested, stats, ledger, nreq, args, models, last_error,
                    attempts, base, gen_attempts, task_attempts >>

\* mutant: process_task has no outer handler
OuterHandlerMissing(response) == response

\* process_task, lines 114 and 151-162: what leaves the outer try -- a
\* returned response as it is, an exception as the catch-all failure
OuterHandler(response) ==
    IF response.kind = "return" THEN response
    ELSE AIResponseFailed("unknown", response.error)

\* process_task, lines 127 and 151-162: the call of models[0] after a failed
\* consensus completed; its exception reaches the outer handler
FallbackCompletes(reply) ==
    /\ pc = "par_fallback"
    /\ LET response == _call_model(models[idx], args.tokens, reply)
       IN /\ attempts' = Append(attempts, Attempt(idx, reply, response))
          /\ outcome' = OuterHandler(response)
    /\ pc' = "done"
    /\ idx' = 0
    /\ task_attempts' = task_attempts + 1
    /\ UNCHANGED << registry_models, interpreted, response_text, cost_reported,
                    cancel_requested, stats, ledger, nreq, args, models, last_error,
                    responses, finished, calls, base, gen_attempts >>

Next ==
    \/ \E a \in GenerateArgs : GenerateStart(a)
    \/ \E n \in ResponseLens : GenerateCallReturns(n)
    \/ \E c \in Causes : GenerateCallRaises(c)
    \/ \E a \in ProcessTaskArgs : ProcessTaskStart(a)
    \/ \E reply \in TaskReplies : SeqCallCompletes(reply)
    \/ \E k \in 1..K, reply \in TaskReplies : ParBranchCompletes(k, reply)
    \/ ParJoin
    \/ \E reply \in TaskReplies : FallbackCompletes(reply)
    \/ Collect

Spec == Init /\ [][Next]_vars

\* ------------------------------------------- requests whose calls complete
\* a provider call in flight eventually returns or raises, and a coroutine
\* that can run is eventually run by the event loop
ProviderCallCompletes ==
    \/ \E n \in ResponseLens : GenerateCallReturns(n)
    \/ \E c \in Causes : GenerateCallRaises(c)
    \/ \E reply \in TaskReplies : SeqCallCompletes(reply)
    \/ \E reply \in TaskReplies : FallbackCompletes(reply)

BranchCompletes(k) == \E reply \in TaskReplies : ParBranchCompletes(k, reply)

LiveGenerateArgs == { x \in GenerateArgs : ~x.prefer_speed /\ ~x.prefer_quality }

\* generate requests in the default order (the preferences only permute the
\* candidate list) and every process_task request
LiveNext ==
    \/ \E a \in LiveGenerateArgs : GenerateStart(a)
    \/ \E n \in ResponseLens : GenerateCallReturns(n)
    \/ \E c \in Causes : GenerateCallRaises(c)
    \/ \E a \in ProcessTaskArgs : ProcessTaskStart(a)
    \/ \E reply \in TaskReplies : SeqCallCompletes(reply)
    \/ \E k \in 1..K, reply \in TaskReplies : ParBranchCompletes(k, reply)
    \/ ParJoin
    \/ \E reply \in TaskReplies : FallbackCompletes(reply)
    \/ Collect

LiveSpec ==
    /\ Init /\ [][LiveNext]_vars
    /\ WF_attempts(ProviderCallCompletes)
    /\ \A k \in 1..K : WF_attempts(BranchCompletes(k))
    /\ WF_pc(ParJoin)

\* ---------------------------------------------- generate under cancellation
\* The caller asks to cancel the task that runs generate while a provider
\* call is in flight: the timeout of asyncio.wait_for falls due, or another
\* thread calls task.cancel().  The provider calls of generate are
\* synchronous SDK calls (lines 315, 334 and 355) inside coroutines that
\* never suspend, so the event loop cannot deliver CancelledError before
\* generate has ended: the request to cancel is only noted.
CancelRequest ==
    /\ pc = "gen_call"
    /\ ~cancel_requested
    /\ cancel_requested' = TRUE
    /\ UNCHANGED << registry_models, interpreted, response_text, stats, cost_reported,
                    ledger, nreq, frame, hist >>

CancelNext ==
    \/ \E a \in GenerateArgs : GenerateStart(a)
    \/ \E n \in ResponseLens : GenerateCallReturns(n)
    \/ \E c \in Causes : GenerateCallRaises(c)
    \/ Collect
    \/ CancelRequest

CancelSpec == Init /\ [][CancelNext]_vars

\* --------------------------------------------------- requests and get_stats
\* generate requests in the default order and sequential process_task
\* requests on one task type, with get_stats called at any point where the
\* event loop is free
StatsGenerateArgs == { x \in GenerateArgs : ~x.prefer_speed /\ ~x.prefer_quality }

StatsTaskArgs ==
    { x \in ProcessTaskArgs : ~x.use_parallel /\ x.category = "action_extraction" }

StatsNext ==
    \/ \E a \in StatsGenerateArgs : GenerateStart(a)
    \/ \E n \in ResponseLens : GenerateCallReturns(n)
    \/ \E c \in Causes : GenerateCallRaises(c)
    \/ \E a \in StatsTaskArgs : ProcessTaskStart(a)
    \/ \E reply \in TaskReplies : SeqCallCompletes(reply)
    \/ Collect
    \/ GetStats

StatsSpec == Init /\ [][StatsNext]_vars

\* -------------------------------------------------- the selector on its own
\* _select_models over ANALYSIS lists of up to MaxCandidates descriptors of
\* any availability, cost and scores
MaxCandidates == 3

\* cost_per_1k_tokens at and above the ceiling the requests set
CandidateCosts == {10, 20}
\* speed_score / quality_score
CandidateScores == {7, 9}

CandidateAttrs == CandidateCosts \X CandidateScores \X CandidateScores \X BOOLEAN

\* the k-th descriptor of a list; its model_id is its place in the list
Candidate(k, a) ==
    [ModelCfg("openai", ToString(k), a[1], a[2], a[3]) EXCEPT !.is_available = a[4]]

\* the list of n descriptors with attributes f[1], ..., f[n]
CandidateList(n, f) == [k \in 1..n |-> Candidate(k, f[k])]

SelectorArgs ==
    { [NoArgs EXCEPT !.api = "select", !.category = "ANALYSIS", !.prefer_speed = ps,
                     !.prefer_quality = pq, !.max_cost = mc] :
        ps \in BOOLEAN, pq \in BOOLEAN, mc \in {None, 10} }

SelectorInit ==
    /\ \E n \in 0..MaxCandidates :
         \E f \in [1..n -> CandidateAttrs] : registry_models = CandidateList(n, f)
    /\ args \in SelectorArgs
    /\ pc = "select"
    /\ request_count = EmptyDict
    /\ error_count = EmptyDict
    /\ total_cost = 0
    /\ nreq = 0
    /\ models = << >>
    /\ idx = 0
    /\ last_error = "None"
    /\ responses = << >>
    /\ finished = << >>
    /\ outcome = NoOutcome
    /\ calls = << >>
    /\ attempts = << >>
    /\ base = [request_count |-> EmptyDict, error_count |-> EmptyDict, total_cost |-> 0]
    /\ gen_attempts = 0
    /\ task_attempts = 0
    /\ stats = NoStats
    /\ cancel_requested = FALSE
    /\ cost_reported = 0
    /\ response_text = << >>
    /\ interpreted = NoInterp

\* one call of _select_models on a registry holding registry_models for
\* the category
SelectModels ==
    /\ pc = "select"
    /\ models' = FilterAndSort(registry_models, args.prefer_speed, args.prefer_quality,
                               args.max_cost)
    /\ registry_models' = RegistryAfter(registry_models, args.prefer_speed,
                                        args.prefer_quality, args.max_cost)
    /\ pc' = "selected"
    /\ UNCHANGED << interpreted, response_text, cost_reported, cancel_requested, stats,
                    ledger, nreq, args, idx, last_error, responses, finished, outcome,
                    hist >>

\* a second call, with other preferences and another ceiling
SelectAgain(a) ==
    /\ pc = "selected"
    /\ nreq = 0
    /\ nreq' = nreq + 1
    /\ args' = a
    /\ models' = << >>
    /\ pc' = "select"
    /\ UNCHANGED << registry_models, interpreted, response_text, cost_reported,
                    cancel_requested, stats, ledger, idx, last_error, responses,
                    finished, outcome, hist >>

SelectorNext ==
    \/ SelectModels
    \/ \E a \in SelectorArgs : SelectAgain(a)

SelectorSpec == SelectorInit /\ [][SelectorNext]_vars

\* --------------------------------------------------------- interpreter runs
\* what _call_model makes of a returned text (_parse_response in the
\* provider helper, _calculate_confidence at line 196) alone, over every text
\* of up to MaxTextLen tokens
MaxTextLen == 3

Documents ==
    { JsonMap(Num(60), Absent, Absent),
      JsonMap(Absent, << "map", Num(70) >>, Absent),
      JsonMap(Absent, Absent, Absent),
      \* {"parsed": false}
      JsonMap(Absent, Absent, << "bool", FALSE >>),
      JsonMapNested(Num(30)),
      JsonList }

Tokens == { Ws, Prose, FenceJson, Fence } \cup { Doc(d) : d \in Documents }

InterpreterInit ==
    /\ \E n \in 0..MaxTextLen :
         \E f \in [1..n -> Tokens] : response_text = [k \in 1..n |-> f[k]]
    /\ interpreted = NoInterp
    /\ pc = "interpret"
    /\ registry_models = << >>
    /\ request_count = EmptyDict
    /\ error_count = EmptyDict
    /\ total_cost = 0
    /\ nreq = 0
    /\ args = NoArgs
    /\ models = << >>
    /\ idx = 0
    /\ last_error = "None"
    /\ responses = << >>
    /\ finished = << >>
    /\ outcome = NoOutcome
    /\ calls = << >>
    /\ attempts = << >>
    /\ base = [request_count |-> EmptyDict, error_count |-> EmptyDict, total_cost |-> 0]
    /\ gen_attempts = 0
    /\ task_attempts = 0
    /\ stats = NoStats
    /\ cancel_requested = FALSE
    /\ cost_reported = 0

\* return self._parse_response(response_text, task_type) of the provider
\* helper, then confidence=self._calculate_confidence(result, task_type)
Interpret ==
    /\ pc = "interpret"
    /\ LET result == _parse_response(response_text)
           confidence == _calculate_confidence(result)
       IN interpreted' = [decoded |-> Decodable(Extract(response_text)),
                          result |-> result, raised |-> confidence.raised,
                          confidence |-> confidence.value]
    /\ pc' = "interpreted"
    /\ UNCHANGED << registry_models, response_text, cost_reported, cancel_requested,
                    stats, ledger, nreq, args, models, idx, last_error, responses,
                    finished, outcome, hist >>

InterpreterNext == Interpret

InterpreterSpec == InterpreterInit /\ [][InterpreterNext]_vars

\* =================================================================== claims
IsGenerate == args.api = "generate"
IsProcessTask == args.api = "process_task"
\* process_task took the parallel branch (line 116)
IsParallel == IsProcessTask /\ args.use_parallel /\ Len(models) > 1
IsSequential == IsGenerate \/ (IsProcessTask /\ ~IsParallel)

\* <<1, 2, ..., n>>
UpTo(n) == [k \in 1..n |-> k]

RegistryKeys ==
    UNION { { Key(MODEL_REGISTRY[t][k]) : k \in 1..Len(MODEL_REGISTRY[t]) } : t \in ModelType }

\* what the request being served has added to the ledger
DeltaRequests(key) == Get(request_count, key) - Get(base.request_count, key)
DeltaErrors(key) == Get(error_count, key) - Get(base.error_count, key)
LedgerUntouched ==
    /\ request_count = base.request_count
    /\ error_count = base.error_count
    /\ total_cost = base.total_cost

\* number of completed attempts of this request on candidates with this key,
\* by result
Completed(key, ok) ==
    Cardinality({ k \in 1..Len(attempts) :
                    attempts[k].ok = ok /\ Key(models[attempts[k].cand]) = key })

AllAttemptsFailed == attempts # << >> /\ \A k \in 1..Len(attempts) : ~attempts[k].ok

\* C1 (as stated): within one request every candidate is invoked at most
\* once, in the order of the candidate list -- the indices invoked are
\* strictly increasing.
C1_InvokedAtMostOnce ==
    \A i, j \in 1..Len(calls) : i < j => calls[i] < calls[j]

\* C1 (amended): a generate request and a sequential process_task request
\* invoke candidates 1, 2, ... in list order, each at most once; a parallel
\* process_task request invokes the first two candidates once each, in list
\* order, and invokes the first candidate once more exactly when both calls
\* have completed without a valid response.
C1_InvocationOrder ==
    /\ IsSequential => calls = UpTo(Len(calls)) /\ Len(calls) <= Len(models)
    /\ IsParallel =>
         /\ calls \in { << 1, 2 >>, << 1, 2, 1 >> }
         /\ calls = << 1, 2, 1 >> <=>
              /\ pc \in {"par_fallback", "done"}
              /\ Len(attempts) >= 2 /\ ~attempts[1].ok /\ ~attempts[2].ok

C1_Witness ==
    /\ pc = "done" /\ IsParallel /\ calls = << 1, 2, 1 >>
    /\ Len(models) = 3 /\ outcome.success

\* C2: in generate's sequential failover, when candidates 1..i-1 raise and
\* candidate i returns, model_used is candidate i, the ledger has gained one
\* error for each of candidates 1..i-1 and one request for candidate i and
\* nothing else, and no candidate after i was invoked.
C2_FailoverDeterminism ==
    (pc = "done" /\ IsGenerate /\ outcome.kind = "return") =>
        LET i == Len(attempts)
        IN /\ i >= 1 /\ attempts[i].ok /\ attempts[i].cand = i
           /\ \A k \in 1..(i-1) : ~attempts[k].ok /\ attempts[k].cand = k
           /\ outcome.success
           /\ outcome.model = models[i].model_id
           /\ outcome.provider = models[i].provider
           /\ calls = UpTo(i)
           /\ \A key \in RegistryKeys :
                /\ DeltaErrors(key) =
                     IF \E k \in 1..(i-1) : Key(models[k]) = key THEN 1 ELSE 0
                /\ DeltaRequests(key) = IF Key(models[i]) = key THEN 1 ELSE 0
           /\ DOMAIN request_count \subseteq RegistryKeys
           /\ DOMAIN error_count \subseteq RegistryKeys

C2_Witness ==
    /\ pc = "done" /\ IsGenerate /\ outcome.kind = "return"
    /\ Len(attempts) = 3 /\ Len(models) = 3
    /\ base.error_count # EmptyDict

C4_FailoverWhileUntried ==
    (pc = "done" /\ attempts # << >> /\ ~outcome.success) =>
        { attempts[k].cand : k \in 1..Len(attempts) } = 1..Len(models)

\* C5: when none of the K concurrent calls succeeds, the sequential protocol
\* runs from the first candidate over the full list -- a parallel request on
\* three or more candidates that is reported as failed has, after the
\* concurrent calls, invoked every candidate of the list in order.
C5_FullFallback ==
    (pc = "done" /\ IsParallel /\ Len(models) > K /\ ~outcome.success) =>
        SubSeq(calls, K + 1, Len(calls)) = UpTo(Len(models))

\* C6: a parallel request invokes exactly the first two candidates, and
\* while one of the two calls is still in flight it has neither returned an
\* outcome nor started the fallback call.
C6_FullJoin ==
    IsParallel =>
        /\ SubSeq(calls, 1, K) = UpTo(K)
        /\ \A k \in 1..Len(calls) : calls[k] \in 1..K
        /\ Len(attempts) < K => pc = "par_wait" /\ outcome = NoOutcome /\ Len(calls) = K
        /\ Len(attempts) >= K => { attempts[1].cand, attempts[2].cand } = 1..K

C6_Witness ==
    /\ pc = "par_wait" /\ IsParallel /\ Len(attempts) = 1
    /\ attempts[1].ok /\ attempts[1].cand = 2

\* C7: the outcome of a successful consensus is the valid response with the
\* highest confidence; among several with that confidence, the one whose
\* candidate comes first in the list; the only one when one call succeeded.
C7_HighestConfidenceWins ==
    (pc = "done" /\ IsParallel /\ Len(attempts) = K) =>
        \E w \in 1..K :
            /\ attempts[w].ok
            /\ \A v \in 1..K : attempts[v].ok =>
                 \/ attempts[v].confidence < attempts[w].confidence
                 \/ /\ attempts[v].confidence = attempts[w].confidence
                    /\ attempts[w].cand <= attempts[v].cand
            /\ outcome.success
            /\ outcome.model = models[attempts[w].cand].value
            /\ outcome.confidence = attempts[w].confidence

C7_Witness ==
    /\ pc = "done" /\ IsParallel /\ Len(attempts) = K
    /\ attempts[1].ok /\ attempts[2].ok
    /\ attempts[1].confidence = attempts[2].confidence
    /\ attempts[1].cand = 2
    /\ outcome.model = models[1].value

\* C8: the decision taken at the join is the same for every order in which
\* the K calls could have completed: whatever the order, the gathered
\* responses yield the outcome returned (or no outcome, and the fallback).
C8_OrderIndependent ==
    [][ (pc = "par_wait" /\ pc' # "par_wait") =>
          \A fin \in Permutations(1..Len(responses)) :
              ConsensusDecision(responses, fin) = outcome' ]_vars

C8_Witness ==
    /\ pc = "done" /\ IsParallel /\ Len(attempts) = K
    /\ attempts[1].cand = 2 /\ attempts[1].ok /\ attempts[1].confidence = 60
    /\ attempts[2].cand = 1 /\ attempts[2].ok /\ attempts[2].confidence = 90
    /\ outcome.model = models[1].value /\ outcome.confidence = 90
    /\ args.category = "topic_classification"

C10_EmptySelectionFailsFast ==
    (IsGenerate /\ _select_models(args.category, args.prefer_speed,
                                  args.prefer_quality, args.max_cost) = << >>) =>
        /\ pc = "done"
        /\ outcome.kind = "raise" /\ outcome.exc = "ValueError"
        /\ calls = << >> /\ attempts = << >>
        /\ LedgerUntouched

C10_Witness ==
    /\ pc = "done" /\ IsGenerate /\ outcome.exc = "ValueError"
    /\ args.category = "ANALYSIS" /\ args.max_cost = 10
    /\ total_cost > 0 /\ gen_attempts > 0

\* C11: a provider call that returned text never fails its candidate because
\* of what the text contains -- every attempt whose provider call returned
\* is a valid response, and a sequential request whose last call returned
\* text ends successfully on that attempt.
C11_ContentNeverFails ==
    \A k \in 1..Len(attempts) :
        attempts[k].returned =>
            /\ attempts[k].ok
            /\ (IsSequential /\ pc = "done") => (k = Len(attempts) /\ outcome.success)

\* C12: every outcome returned with success = False has no structured
\* result and carries an error description; generate returns no such
\* outcome (it raises).
C12_FailureShape ==
    /\ (outcome.kind = "return" /\ ~outcome.success) =>
           /\ IsProcessTask
           /\ outcome.result = NoResult
           /\ outcome.error # "-"
           /\ outcome.confidence = 0 /\ outcome.tokens_used = 0
    /\ \A k \in 1..Len(responses) :
           (responses[k].state = "done" /\ responses[k].value.kind = "return") =>
               responses[k].value.success

\* the catch-all failure, after a call that returned text was discarded
C12_Witness ==
    /\ pc = "done" /\ outcome.kind = "return" /\ ~outcome.success
    /\ outcome.model = "unknown" /\ outcome.error = "timeout"
    /\ Len(attempts) = 3 /\ attempts[1].returned

\* C13: the confidence of every outcome returned is in [0.0, 1.0] (0..100
\* percent), whatever the provider answered.
C13_ConfidenceInRange ==
    outcome.kind = "return" => outcome.confidence \in 0..100

\* the list the selector was given and its place-preserving lookups
SelectorInput == registry_models
\* place of a descriptor in the registry list
Place(m) == CHOOSE k \in 1..Len(SelectorInput) : SelectorInput[k] = m
\* the claim's surviving candidates
Survives(m) ==
    m.is_available /\ (args.max_cost # None => m.cost_per_1k_tokens <= args.max_cost)

\* C14: the selector's output holds exactly the registry candidates of the
\* category that are available and, under a ceiling, cost no more than the
\* ceiling (a candidate at the ceiling is kept): each survivor once, nothing
\* else.
C14_ExactlyTheSurvivors ==
    pc = "selected" =>
        /\ \A k \in 1..Len(SelectorInput) :
             Cardinality({ j \in 1..Len(models) : models[j] = SelectorInput[k] }) =
                 IF Survives(SelectorInput[k]) THEN 1 ELSE 0
        /\ \A j \in 1..Len(models) :
             \E k \in 1..Len(SelectorInput) : SelectorInput[k] = models[j]

\* one candidate at the ceiling kept, one above it and one unavailable
\* dropped
C14_Witness ==
    /\ pc = "selected" /\ args.max_cost = 10
    /\ Len(SelectorInput) = 3 /\ Len(models) = 1
    /\ models[1] = SelectorInput[2] /\ models[1].cost_per_1k_tokens = 10
    /\ ~SelectorInput[1].is_available /\ SelectorInput[1].cost_per_1k_tokens = 10
    /\ SelectorInput[3].is_available /\ SelectorInput[3].cost_per_1k_tokens = 20

\* the claim's ordering key, doubled; speed when both preferences are set
ActiveKey(m) ==
    IF args.prefer_speed THEN 2 * m.speed_score
    ELSE IF args.prefer_quality THEN 2 * m.quality_score
    ELSE m.speed_score + m.quality_score

\* C15: the selector's output is in descending order of the active key --
\* speed_score, quality_score, or their mean by default -- candidates of
\* equal key keep their registry order, and with both preferences set the
\* order is the speed order alone.
C15_SortedStable ==
    pc = "selected" =>
        \A i, j \in 1..Len(models) :
            i < j =>
                \/ ActiveKey(models[i]) > ActiveKey(models[j])
                \/ /\ ActiveKey(models[i]) = ActiveKey(models[j])
                   /\ Place(models[i]) < Place(models[j])

\* both preferences set, a tie on speed between candidates whose quality
\* would order them the other way, and a faster candidate moved in front
C15_Witness ==
    /\ pc = "selected" /\ args.prefer_speed /\ args.prefer_quality
    /\ Len(models) = 3
    /\ Place(models[1]) = 3 /\ Place(models[2]) = 1 /\ Place(models[3]) = 2
    /\ models[2].speed_score = models[3].speed_score
    /\ models[2].quality_score < models[3].quality_score

\* ids of the candidates a reported failure names: the model field of a
\* returned AIResponse; the RuntimeError message of generate names none
IdsCarried(o) == IF o.kind = "return" THEN { o.model } ELSE {}

\* id of the candidate at a place of the list, for either class
CandidateId(ms, k) == IF IsGenerate THEN ms[k].model_id ELSE ms[k].value

\* the request ended by reporting that its candidates failed
AllFailedReported ==
    /\ pc = "done" /\ attempts # << >>
    /\ \/ outcome.kind = "raise"
       \/ outcome.kind = "return" /\ ~outcome.success

\* C16: an all-candidates-failed error is reported only after every
\* candidate of the list has been attempted and has failed, and it carries
\* the error of the last candidate attempted and the ids of all the
\* candidates attempted.
C16_AllFailedReport ==
    AllFailedReported =>
        /\ { attempts[k].cand : k \in 1..Len(attempts) } = 1..Len(models)
        /\ \A k \in 1..Len(attempts) : ~attempts[k].ok
        /\ outcome.error \in Causes
        /\ { CandidateId(models, attempts[k].cand) : k \in 1..Len(attempts) }
               \subseteq IdsCarried(outcome)

UnknownCategory ==
    \/ IsGenerate /\ args.category \notin ModelType
    \/ IsProcessTask /\ args.category \notin TaskType

\* C17: a request for a category without a registry entry fails with a
\* ConfigurationError: no candidate is invoked for it, and the failure is
\* not the no-available-models error.
C17_UnknownCategoryRejected ==
    UnknownCategory =>
        /\ pc = "done"
        /\ outcome.kind = "raise" /\ outcome.exc = "ConfigurationError"
        /\ calls = << >>

\* C18: no step lowers or removes a per-model request counter or error
\* counter, nor lowers total_requests, total_errors or the total cost.
C18_Monotonic ==
    [][ /\ \A key \in DOMAIN request_count :
             key \in DOMAIN request_count' /\ request_count'[key] >= request_count[key]
        /\ \A key \in DOMAIN error_count :
             key \in DOMAIN error_count' /\ error_count'[key] >= error_count[key]
        /\ SumValues(request_count') >= SumValues(request_count)
        /\ SumValues(error_count') >= SumValues(error_count)
        /\ total_cost' >= total_cost ]_vars

\* a second request has added to a ledger that already held two models'
\* error counters and a cost
C18_Witness ==
    /\ pc = "done" /\ IsGenerate /\ nreq = 2
    /\ Cardinality(DOMAIN base.error_count) = 2
    /\ Cardinality(DOMAIN base.request_count) = 1
    /\ base.total_cost > 0 /\ total_cost > base.total_cost
    /\ \E key \in DOMAIN base.request_count : request_count[key] = 2

\* a success rate r is the quotient of requests by requests + errors
IsRateOf(r, requests, errors) ==
    /\ r.den > 0
    /\ IF requests + errors = 0 THEN r.num = r.den
       ELSE r.num * (requests + errors) = requests * r.den

\* C19: in every ledger state the success rate get_stats reports is
\* total_requests / (total_requests + total_errors), and exactly 1 when both
\* are zero; it lies in [0, 1] and is 0 only when at least one error and no
\* request has been recorded.
C19_SuccessRate ==
    LET r == _calculate_success_rate(request_count, error_count)
    IN /\ IsRateOf(r, SumValues(request_count), SumValues(error_count))
       /\ 0 <= r.num /\ r.num <= r.den
       /\ r.num = 0 => (SumValues(error_count) >= 1 /\ SumValues(request_count) = 0)
       /\ stats # NoStats =>
            /\ IsRateOf(stats.success_rate, stats.total_requests, stats.total_errors)
            /\ 0 <= stats.success_rate.num /\ stats.success_rate.num <= stats.success_rate.den

\* get_stats reported 1/3 after two errors and one request
C19_Witness ==
    /\ stats.success_rate = [num |-> 1, den |-> 3]
    /\ stats.total_requests = 1 /\ stats.total_errors = 2

\* C20: a call of get_stats changes nothing but its return value, and in
\* the dict it returns total_requests is the sum of the per-model request
\* counters and total_errors the sum of the per-model error counters -- also
\* when a request is suspended at a provider call.
C20_StatsReadOnly ==
    [][ stats' # stats =>
          /\ UNCHANGED << ledger, nreq, frame, hist >>
          /\ stats'.total_requests = SumValues(request_count')
          /\ stats'.total_errors = SumValues(error_count') ]_vars

\* get_stats was called with a process_task request suspended at its second
\* provider call, on a ledger holding two models' errors and one request
C20_Witness ==
    /\ pc = "seq_call" /\ IsProcessTask /\ idx = 2
    /\ stats.total_errors = 2 /\ stats.total_requests = 1
    /\ Cardinality(DOMAIN error_count) = 2 /\ Cardinality(DOMAIN request_count) = 1
    /\ total_cost > 0

\* a request is being served and has not yet ended
InFlight == pc \in {"gen_call", "seq_call", "par_wait", "par_fallback"}

\* what a caller may receive: a returned outcome with its fields set, or one
\* of the two exceptions generate raises on purpose
WellFormedOutcome ==
    \/ /\ outcome.kind = "return"
       /\ outcome.model # "-"
       /\ outcome.success => outcome.error = "-"
       /\ ~outcome.success => outcome.error # "-"
    \/ /\ outcome.kind = "raise"
       /\ outcome.exc \in {"ValueError", "RuntimeError"}
       /\ IsGenerate

\* C21: every request ends once its provider calls complete; a sequential
\* request over n candidates makes at most n provider attempts; and what the
\* caller receives is a returned outcome or the no-available-models or
\* all-failed exception, nothing else.
C21_Terminates ==
    /\ [](IsSequential => Len(attempts) <= Len(models) /\ Len(calls) <= Len(models))
    /\ [](pc = "done" => WellFormedOutcome)
    /\ (InFlight ~> pc = "done")

\* a sequential request over three candidates ended after three attempts
C21_Witness ==
    /\ pc = "done" /\ IsProcessTask /\ IsSequential
    /\ Len(models) = 3 /\ Len(attempts) = 3
    /\ outcome.kind = "return" /\ ~outcome.success

\* C22: once the caller has asked to cancel the request whose provider call
\* is in flight, no counter and no cost of the ledger decreases and no
\* further candidate of the request is invoked.
C22_CancelStopsRequest ==
    [][cancel_requested =>
          /\ \A key \in DOMAIN request_count :
                key \in DOMAIN request_count' /\ request_count'[key] >= request_count[key]
          /\ \A key \in DOMAIN error_count :
                key \in DOMAIN error_count' /\ error_count'[key] >= error_count[key]
          /\ total_cost' >= total_cost
          /\ Len(calls') <= Len(calls)]_vars

\* C23: when json.loads rejects the extracted text, the result is the
\* fallback map: parsed false, the whole response text under raw_response,
\* no other content, and the confidence is 0.5.
C23_DecodeFailure ==
    (pc = "interpreted" /\ ~interpreted.decoded) =>
        /\ interpreted.result.kind = "map"
        /\ interpreted.result.parsed = << "bool", FALSE >>
        /\ interpreted.result.raw_response = response_text
        /\ interpreted.result.confidence = Absent
        /\ interpreted.result.overall_sentiment = Absent
        /\ interpreted.result.nested = Absent
        /\ ~interpreted.raised
        /\ interpreted.confidence = 50

\* the undecodable text sat in a fenced block between prose
C23_Witness ==
    /\ pc = "interpreted" /\ ~interpreted.decoded
    /\ response_text = << FenceJson, Prose, Fence >>
    /\ Extract(response_text) = << Prose >>
    /\ interpreted.result.raw_response = response_text

\* the confidence field a decoded map states, at the top level or one level
\* down under any key
ExplicitConfidence(result) ==
    IF result.confidence # Absent THEN result.confidence
    ELSE IF result.overall_sentiment # Absent /\ result.overall_sentiment[1] = "map"
              /\ result.overall_sentiment[2] # Absent
    THEN result.overall_sentiment[2]
    ELSE IF result.nested # Absent THEN result.nested[2]
    ELSE Absent

\* C24: the confidence of a decoded map is its explicit confidence field, at
\* the top level or one level down under any key, and 0.85 when it has none.
C24_ConfidenceField ==
    (pc = "interpreted" /\ interpreted.decoded /\ interpreted.result.kind = "map") =>
        /\ ~interpreted.raised
        /\ interpreted.confidence =
              IF ExplicitConfidence(interpreted.result) # Absent
              THEN ExplicitConfidence(interpreted.result)[2]
              ELSE 85

\* the content of the block opened at open; an unclosed block runs to the
\* end of the text
SliceToEnd(text, open) ==
    LET json_end == Find(text, {"fence", "fence_json"}, open + 1)
    IN IF json_end # 0 THEN SubSeq(text, open + 1, json_end - 1)
       ELSE SubSeq(text, open + 1, Len(text))

\* the text the priority rule selects: the content of the first block
\* opened with ```json, else of the first block, else the whole text; a
\* block ends at the next fence or with the text
PriorityText(text) ==
    IF Contains(text, {"fence_json"})
    THEN Strip(SliceToEnd(text, Find(text, {"fence_json"}, 1)))
    ELSE IF Contains(text, {"fence"})
    THEN Strip(SliceToEnd(text, Find(text, {"fence"}, 1)))
    ELSE Strip(text)

\* C29: the interpreter decodes the text the priority rule selects: the
\* result is that document when it is one, the fallback otherwise.
C29_FencePriority ==
    pc = "interpreted" =>
        /\ interpreted.decoded = Decodable(PriorityText(response_text))
        /\ interpreted.decoded => interpreted.result = PriorityText(response_text)[1].doc

\* the attempt a step has completed
CompletesAttempt == Len(attempts') = Len(attempts) + 1
LastAttempt == attempts'[Len(attempts')]

InFlightCalls == Len(calls) - Len(attempts)

GenerateSucceeds == IsGenerate /\ CompletesAttempt /\ LastAttempt.ok

\* C27: the total cost changes only in a step that completes a successful
\* attempt of generate, and then grows by the cost the outcome reports,
\* (len(prompt) + len(response)) / 4 / 1000 * cost_per_1k_tokens of the model
\* that answered; every other step -- a failed attempt, the empty-selection
\* failure, get_stats -- leaves it unchanged.
C27_CostOnSuccessOnly ==
    [][ /\ total_cost' # total_cost => GenerateSucceeds
        /\ GenerateSucceeds =>
             /\ outcome'.kind = "return" /\ outcome'.success
             /\ total_cost' = total_cost + outcome'.cost
             /\ outcome'.cost = (args.prompt_len + outcome'.response_len) *
                                  models[LastAttempt.cand].cost_per_1k_tokens ]_vars

\* the second request succeeded at its second candidate after get_stats had
\* been called: the total has grown by the reported cost of a 20-character
\* prompt and a 40-character response
C27_Witness ==
    /\ pc = "done" /\ IsGenerate /\ outcome.success /\ nreq = 2
    /\ Len(attempts) = 2 /\ outcome.response_len = 40
    /\ outcome.cost = 60 * models[2].cost_per_1k_tokens
    /\ total_cost = base.total_cost + outcome.cost /\ base.total_cost > 0
    /\ stats # NoStats

\* C28: no call of the selector changes the list the registry holds, so a
\* selection is the filter and sort of the start-up list whatever was
\* selected before.
C28_RegistryReadOnly ==
    /\ [][registry_models' = registry_models]_vars
    /\ [](pc = "selected" =>
            models = FilterAndSort(registry_models, args.prefer_speed,
                                   args.prefer_quality, args.max_cost))

\* a second selection has reordered and filtered its result while the
\* registry still holds its three descriptors in their start-up order
C28_Witness ==
    /\ pc = "selected" /\ nreq = 1
    /\ Len(registry_models) = 3 /\ Len(models) = 2
    /\ \A k \in 1..3 : registry_models[k].model_id = ToString(k)
    /\ models[1] = registry_models[3] /\ models[2] = registry_models[1]

\* C30: process_task hands its caller an AIResponse and never an exception,
\* whether the provider, the parsing or the confidence computation failed, in
\* sequential and in parallel mode; a response with success = False has
\* result None, confidence 0.0 and tokens_used 0.
C30_NeverRaises ==
    IsProcessTask =>
        /\ outcome.kind # "raise"
        /\ pc = "done" =>
             /\ outcome.kind = "return"
             /\ ~outcome.success =>
                  /\ outcome.result = NoResult
                  /\ outcome.confidence = 0
                  /\ outcome.tokens_used = 0

\* parallel mode: both branches failed and the confidence computation raised
\* in the call that followed a provider reply
C30_Witness ==
    /\ pc = "done" /\ IsParallel /\ Len(attempts) = 3
    /\ ~attempts[1].returned /\ ~attempts[2].returned /\ attempts[3].returned
    /\ outcome.kind = "return" /\ ~outcome.success
    /\ outcome.error = "confidence" /\ outcome.tokens_used = 0

====
